---- MODULE Spec2Model ----
(***************************************************************************)
(* A model of tty-rs: the pty server (TtyServer), the proxy client         *)
(* (TtyClient) with its four splice_loop workers, the FileDesc wrapper     *)
(* and the raw-mode termios recipe.                                        *)
(*                                                                         *)
(* Several specifications share the module:                                *)
(*   Spec     one server, one peer, at most one client with its workers,   *)
(*            the spawned child and the terminal user as environment;      *)
(*   FairSpec Spec plus weak fairness of the steps the threads of the      *)
(*            program take by themselves (not of the environment);         *)
(*   SpecFd   arbitrary sequences of FileDesc operations;                  *)
(*   SpecRaw  the raw-mode recipe applied repeatedly to any termios;       *)
(*   SpecServer the calls on a TtyServer, get_path and get_master included;  *)
(*   SpecPty  calls of openpty (ffi.rs), each step of which may fail;      *)
(*   SpecRelay the four workers of a running client relaying longer        *)
(*            streams in both directions;                                  *)
(*   SpecCancel the four workers of a running client up to their exit,     *)
(*            with the transfers each finishes under a set flag counted;   *)
(*   SpecHops the running client and a caller of wait(), with weak         *)
(*            fairness of the threads that read a relay pipe and of the    *)
(*            thread inside wait().                                        *)
(***************************************************************************)
EXTENDS Integers, Sequences, FiniteSets, TLC

VARIABLES
    \* kernel descriptor table of the process: handle -> [obj, open, closes]
    fdtab,
    \* TtyServer {master, slave: Option<FileDesc>, path}
    server,
    \* the slave FileDesc a caller got from take_slave (Option)
    taken,
    \* the process started by spawn: "none", "alive", "exited"
    child,
    \* history of spawn: children started, result of the last call
    nChildren, lastSpawn,
    \* what the last successful spawn gave the command as stdin, stdout and
    \* stderr (Option)
    childStdio,
    \* the peer FileDesc the caller owns before it is given to a client (Option)
    peerDesc,
    \* the peer terminal: its termios, whether it is still connected,
    \* whether it was opened non-blocking
    peerTermios, peerUp, peerNonblock,
    \* TtyClient under construction / constructed: position of the caller
    \* in TtyClient::new and after: "idle", "pipeA", "pipeB", "running",
    \* "failed", "dropped"
    mainPc,
    \* how the caller builds its client: "new_client" (TtyServer::new_client)
    \* or "direct" (TtyClient::new on a master of its own)
    via,
    \* the arguments master and peer of TtyClient::new, then the fields of
    \* the TtyClient (Option; they keep their last value once the client is
    \* gone), and the field termios_orig (Option)
    cmaster, cpeer, termios_orig,
    \* shared AtomicBool do_flush
    do_flush,
    \* channel flush_event: queued messages, whether the Sender still exists
    events, senderAlive,
    \* history: how many times each worker called event.send
    sent,
    \* the four splice_loop threads: "unborn", "load" (about to read the
    \* flag), "splice" (in the transfer), "done" (returned)
    wpc,
    \* relay pipes: the bytes queued in each
    pipeA, pipeB,
    \* raw descriptors captured by the worker closures: master_fd (m), peer_fd
    \* (p) and the ends of the relay pipes (ar, aw, br, bw); -1 before creation
    wfd,
    \* TtyClient::wait: "idle", "load", "recv", "returned"
    waitPc,
    \* byte streams: child output readable on the master, bytes delivered to
    \* the peer, bytes typed on the peer, bytes delivered to the slave
    masterOut, peerOut, peerIn, slaveIn,
    \* how many bytes the child wrote / the user typed so far
    nOut, nIn,
    \* history: result of the restore in drop: "none", "ok", "failed"; the
    \* peer termios when TtyClient::new was entered
    restored, termiosAtBind,
    \* SpecFd: FileDesc values created so far, each with its life state
    descs,
    \* SpecRaw: the termios values obtained by repeated raw-mode application
    rawHist,
    \* SpecServer: what the last call of get_path or get_master returned (Option)
    got,
    \* SpecPty: the call of openpty in progress (Option)
    pty,
    \* SpecCancel: history, for each worker the transfers that returned when
    \* the flag was already true (Option: None where it is not recorded)
    finishedAfter

vars == <<fdtab, server, taken, child, nChildren, lastSpawn, childStdio,
          peerDesc, peerTermios, peerUp, peerNonblock, mainPc, via, cmaster,
          cpeer, termios_orig, do_flush, events, senderAlive, sent, wpc, pipeA,
          pipeB, wfd, waitPc, masterOut, peerOut, peerIn, slaveIn, nOut,
          nIn, restored, termiosAtBind, descs, rawHist, got, pty,
          finishedAfter>>

(***************************************************************************)
(* Bounds of the model.                                                    *)
(***************************************************************************)
\* bytes the child writes to the slave
MaxOut == 1
\* bytes the user types on the peer
MaxIn == 1
\* capacity of a relay pipe, in bytes
PipeCap == 2
\* bytes the child writes, and bytes the user types, in SpecRelay
MaxRelay == 3
\* calls of openpty in SpecPty
MaxPtyCalls == 2
\* FileDesc values created in SpecFd
MaxDescs == 3
\* largest VMIN / VTIME value of an input termios in SpecRaw
MaxCc == 1
\* applications of the raw-mode recipe in SpecRaw
MaxApply == 2

(***************************************************************************)
(* Program constants.                                                      *)
(***************************************************************************)
SPLICE_BUFFER_SIZE == 1024

Min(a, b) == IF a <= b THEN a ELSE b

None == << >>
Some(x) == <<x>>

(***************************************************************************)
(* FileDesc (fd.rs) over the kernel descriptor table.                      *)
(***************************************************************************)
NextHandle(tab) == Cardinality(DOMAIN tab)

\* a system call that opens a new descriptor on kernel object obj
Alloc(tab, obj) ==
    [h \in 0..NextHandle(tab) |->
        IF h = NextHandle(tab) THEN [obj |-> obj, open |-> TRUE, closes |-> 0]
        ELSE tab[h]]

\* libc::close(h)
Close(tab, h) == [tab EXCEPT ![h].open = FALSE, ![h].closes = @ + 1]

FileDescNew(fd, close_on_drop) == [fd |-> fd, close_on_drop |-> close_on_drop]

\* faulty variant: the duplicate wraps the original's handle, no dup(2)
FileDescDupSameFd(tab, d) == <<tab, d>>

\* FileDesc::dup: <<table after dup(2), the new FileDesc>>
FileDescDup(tab, d) ==
    <<Alloc(tab, tab[d.fd].obj), FileDescNew(NextHandle(tab), d.close_on_drop)>>

\* faulty variant: into() forgets to clear close_on_drop
FileDescIntoKeepsFlag(d) == d

\* Into<RawFd>::into: self as it is when it goes out of scope
FileDescInto(d) == [d EXCEPT !.close_on_drop = FALSE]

\* faulty variant: drop closes whatever the flag says
FileDescDropAlways(tab, d) == Close(tab, d.fd)

\* Drop for FileDesc
FileDescDrop(tab, d) == IF d.close_on_drop THEN Close(tab, d.fd) ELSE tab

\* drop of an Option<FileDesc>
OptionDrop(tab, o) == IF o = None THEN tab ELSE FileDescDrop(tab, o[1])

as_raw_fd(d) == d.fd

IsOpen(tab, h) == h \in DOMAIN tab /\ tab[h].open

\* some descriptor of this process, or the child, still refers to the slave
SlaveOpen(tab, ch) ==
    \/ ch = "alive"
    \/ \E h \in DOMAIN tab : tab[h].obj = "slave" /\ tab[h].open

(***************************************************************************)
(* Termios and the raw-mode recipe of TtyClient::new.                      *)
(***************************************************************************)
LocalFlags == {"ECHO", "ICANON", "ISIG", "IEXTEN"}
InputFlags == {"IGNBRK", "BRKINT", "ICRNL", "IXON"}

Termios(l, i, vmin, vtime) ==
    [local_flags |-> l, input_flags |-> i,
     control_chars |-> [VMIN |-> vmin, VTIME |-> vtime]]

\* faulty variant: BRKINT is toggled instead of inserted
MakeRawToggle(t) ==
    [local_flags |-> t.local_flags \ {"ECHO", "ICANON", "ISIG"},
     input_flags |->
        IF "BRKINT" \in t.input_flags
        THEN t.input_flags \ {"IGNBRK", "ICRNL", "BRKINT"}
        ELSE (t.input_flags \ {"IGNBRK", "ICRNL"}) \cup {"BRKINT"},
     control_chars |-> [VMIN |-> 1, VTIME |-> 0]]

\* lines 277-284: termios_peer after the eight assignments
MakeRaw(t) ==
    LET l1 == t.local_flags \ {"ECHO"}
        l2 == l1 \ {"ICANON"}
        l3 == l2 \ {"ISIG"}
        i1 == t.input_flags \ {"IGNBRK"}
        i2 == i1 \cup {"BRKINT"}
        i3 == i2 \ {"ICRNL"}
        c1 == [t.control_chars EXCEPT !.VMIN = 1]
        c2 == [c1 EXCEPT !.VTIME = 0]
    IN  [local_flags |-> l3, input_flags |-> i3, control_chars |-> c2]

\* a cooked terminal, as a shell leaves it
Cooked == Termios({"ECHO", "ICANON", "ISIG", "IEXTEN"}, {"ICRNL", "IXON"}, 1, 0)
\* a terminal with the opposite of every raw-mode setting
Inverse == Termios({"ECHO", "ICANON", "ISIG"}, {"IGNBRK", "ICRNL"}, 0, 1)
\* the callers the client model starts from: how the caller builds its
\* client, whether its FileDesc owns the peer handle, whether the terminal
\* was opened non-blocking, the termios of the terminal. The first is
\* examples/spawn.rs; every pair of values of two of the first three occurs
Caller(how, c, nb, t) ==
    [via |-> how, close_on_drop |-> c, nonblock |-> nb, termios |-> t]
Callers ==
    {Caller("new_client", FALSE, FALSE, Cooked),
     Caller("new_client", TRUE, TRUE, Inverse),
     Caller("direct", FALSE, TRUE, Cooked),
     Caller("direct", TRUE, FALSE, Inverse)}

PtsPath == "/dev/pts/0"
(***************************************************************************)
(* Initial state: TtyServer::new has succeeded (master 1, slave 2), the    *)
(* caller holds a FileDesc on its terminal (handle 0).                     *)
(***************************************************************************)
InitFdtab ==
    [h \in 0..2 |->
        [obj |-> IF h = 0 THEN "peer" ELSE IF h = 1 THEN "master" ELSE "slave",
         open |-> TRUE, closes |-> 0]]

\* TtyServer::new, lines 216-220, over openpty's Pty (lines 161-163)
InitServer ==
    [master |-> FileDescNew(1, TRUE),
     slave |-> Some(FileDescNew(2, TRUE)),
     path |-> PtsPath]

\* the part of the state the server/client model starts from, peer aside
InitMain ==
    /\ fdtab = InitFdtab
    /\ server = InitServer
    /\ taken = None
    /\ child = "none"
    /\ nChildren = 0 /\ lastSpawn = "none" /\ childStdio = None
    /\ peerUp = TRUE
    /\ mainPc = "idle"
    /\ cmaster = None /\ cpeer = None /\ termios_orig = None
    /\ do_flush = FALSE
    /\ events = 0 /\ senderAlive = FALSE
    /\ sent = [w \in 1..4 |-> 0]
    /\ wpc = [w \in 1..4 |-> "unborn"]
    /\ pipeA = << >> /\ pipeB = << >>
    /\ wfd = [m |-> -1, p |-> -1, ar |-> -1, aw |-> -1, br |-> -1, bw |-> -1]
    /\ waitPc = "idle"
    /\ masterOut = << >> /\ peerOut = << >> /\ peerIn = << >> /\ slaveIn = << >>
    /\ nOut = 0 /\ nIn = 0
    /\ restored = "none" /\ termiosAtBind = None
    /\ got = None
    /\ finishedAfter = None

Init ==
    /\ InitMain
    /\ \E in \in Callers :
        /\ via = in.via
        /\ peerDesc = Some(FileDescNew(0, in.close_on_drop))
        /\ peerTermios = in.termios
        /\ peerNonblock = in.nonblock
    /\ descs = << >>
    /\ rawHist = << >>
    /\ pty = None

serverVars == <<server, taken, child, nChildren, lastSpawn, childStdio>>
peerVars == <<peerDesc, peerTermios, peerUp, peerNonblock>>
clientVars == <<mainPc, via, cmaster, cpeer, termios_orig, restored, termiosAtBind>>
chanVars == <<events, senderAlive, sent>>
dataVars == <<pipeA, pipeB, masterOut, peerOut, peerIn, slaveIn, nOut, nIn>>
otherVars == <<descs, rawHist, got, pty, finishedAfter>>

(***************************************************************************)
(* TtyServer.                                                              *)
(***************************************************************************)
\* faulty variant: spawn does not look at the slave
SpawnRetNoCheck(slave, ok) == IF ok THEN "ok" ELSE "spawn_error"

\* TtyServer::spawn, lines 247-260: ret, for a process creation that
\* succeeds (ok) or not
SpawnRet(slave, ok) ==
    IF slave # None
    THEN (IF ok THEN "ok" ELSE "spawn_error")
    ELSE "BrokenPipe"

\* faulty variant: the slave is given up only when the process was created
SpawnDropSlaveOnOk(slave, ok) == slave # None /\ ok

\* TtyServer::spawn, lines 246-249: drop_slave
SpawnDropSlave(slave, ok) == slave # None

\* the caller is one thread (examples/spawn.rs): it starts a call only when
\* it is not inside TtyClient::new or TtyClient::wait
CallerFree ==
    /\ mainPc \in {"idle", "running", "failed", "dropped"}
    /\ waitPc \in {"idle", "returned"}

InheritFd(fd) == [kind |-> "InheritFd", fd |-> fd]

\* TtyServer::spawn, lines 250-255: what the command is given as standard
\* input, output and error
SpawnStdio(slave) ==
    LET s == InheritFd(as_raw_fd(slave))
    IN  [stdin |-> s, stdout |-> s, stderr |-> s]

\* TtyServer::spawn(cmd)
Spawn(ok) ==
    /\ CallerFree
    /\ LET ret == SpawnRet(server.slave, ok)
           drop_slave == SpawnDropSlave(server.slave, ok)
       IN  /\ lastSpawn' = ret
           \* the command gets the slave in the arm Some(ref slave) only
           /\ childStdio' = IF ret # "ok" THEN childStdio
                            ELSE IF server.slave # None
                                 THEN Some(SpawnStdio(server.slave[1]))
                                 ELSE None
           /\ child' = IF ret = "ok" THEN "alive" ELSE child
           /\ nChildren' = IF ret = "ok" THEN nChildren + 1 ELSE nChildren
           /\ server' = IF drop_slave THEN [server EXCEPT !.slave = None] ELSE server
           /\ fdtab' = IF drop_slave THEN OptionDrop(fdtab, server.slave) ELSE fdtab
    /\ UNCHANGED <<taken, peerVars, clientVars, do_flush, chanVars, wpc, wfd,
                   waitPc, dataVars, otherVars>>

\* TtyServer::take_slave: the caller keeps what it gets
TakeSlave ==
    /\ CallerFree
    /\ taken' = IF server.slave # None THEN server.slave ELSE taken
    /\ server' = [server EXCEPT !.slave = None]
    /\ UNCHANGED <<fdtab, child, nChildren, lastSpawn, childStdio, peerVars,
                   clientVars, do_flush, chanVars, wpc, wfd, waitPc, dataVars,
                   otherVars>>

\* the caller lets go of the slave it took
DropTaken ==
    /\ CallerFree
    /\ taken # None
    /\ fdtab' = OptionDrop(fdtab, taken)
    /\ taken' = None
    /\ UNCHANGED <<server, child, nChildren, lastSpawn, childStdio, peerVars,
                   clientVars, do_flush, chanVars, wpc, wfd, waitPc, dataVars,
                   otherVars>>
(***************************************************************************)
(* TtyClient::new, in three steps of the calling thread: the termios       *)
(* set-up (lines 275-290), the first relay pipe with its two workers       *)
(* (lines 293-303), the second with its two workers (lines 306-324).       *)
(***************************************************************************)
\* an early return of TtyClient::new: the arguments master and peer and the
\* channel go out of scope; no TtyClient exists, so Drop for TtyClient does
\* not run
NewReturnsErr(tab, master, peer) ==
    /\ fdtab' = FileDescDrop(FileDescDrop(tab, master), peer)
    /\ cmaster' = Some(master)
    /\ cpeer' = Some(peer)
    /\ mainPc' = "failed"
    /\ senderAlive' = FALSE

\* faulty variant: the snapshot is taken after raw mode is applied
SnapshotAfterRaw(t) == MakeRaw(t)

\* line 275: termios_orig
Snapshot(t) == t

\* lines 275-290 on the arguments master and peer; o is the step that
\* fails, or "ok"; a terminal that has hung up fails every termios call
ClientNewTermios(tab, master, how, o) ==
    /\ mainPc = "idle"
    /\ peerDesc # None
    /\ o = "ok" => peerUp
    /\ via = how
    /\ peerDesc' = None
    /\ termiosAtBind' = Some(peerTermios)
    /\ IF o = "ok"
       THEN /\ cmaster' = Some(master)
            /\ cpeer' = peerDesc
            /\ termios_orig' = Some(Snapshot(peerTermios))
            /\ peerTermios' = MakeRaw(peerTermios)
            /\ do_flush' = FALSE
            /\ events' = 0
            /\ senderAlive' = TRUE
            /\ mainPc' = "pipeA"
            /\ fdtab' = tab
       ELSE /\ NewReturnsErr(tab, master, peerDesc[1])
            /\ UNCHANGED <<termios_orig, peerTermios, do_flush, events>>
    /\ UNCHANGED <<serverVars, peerUp, peerNonblock, via, restored, sent, wpc,
                   wfd, waitPc, dataVars, otherVars>>

\* faulty variant: the client's master wraps the server's handle as its owner
NewClientMasterOwning(m) == FileDescNew(as_raw_fd(m), TRUE)

\* TtyServer::new_client, line 225: the master the client is given
NewClientMaster(m) == FileDescNew(as_raw_fd(m), FALSE)

\* TtyServer::new_client(peer): the master is borrowed from the server
NewClient(o) ==
    ClientNewTermios(fdtab, NewClientMaster(server.master), "new_client", o)

\* TtyClient::new(server.get_master().dup(), peer): the caller hands over a
\* master of its own
NewDirect(o) ==
    LET d == FileDescDup(fdtab, server.master)
    IN  ClientNewTermios(d[1], d[2], "direct", o)

\* PipeStream::pair succeeded: the two ends, in a table with both open
PipePair(tab, name) == Alloc(Alloc(tab, name \o "_r"), name \o "_w")

\* lines 293-303
NewPipeA(ok) ==
    /\ mainPc = "pipeA"
    /\ IF ok
       THEN /\ fdtab' = PipePair(fdtab, "pipeA")
            /\ wfd' = [wfd EXCEPT !.m = as_raw_fd(cmaster[1]),
                                  !.p = as_raw_fd(cpeer[1]),
                                  !.ar = NextHandle(fdtab),
                                  !.aw = NextHandle(fdtab) + 1]
            /\ wpc' = [wpc EXCEPT ![1] = "load", ![2] = "load"]
            /\ mainPc' = "pipeB"
            /\ UNCHANGED <<cmaster, cpeer, senderAlive>>
       ELSE /\ NewReturnsErr(fdtab, cmaster[1], cpeer[1])
            /\ UNCHANGED <<wfd, wpc>>
    /\ UNCHANGED <<serverVars, peerVars, via, termios_orig, restored,
                   termiosAtBind, do_flush, events, sent, waitPc, dataVars,
                   otherVars>>

\* lines 306-324
NewPipeB(ok) ==
    /\ mainPc = "pipeB"
    /\ IF ok
       THEN /\ fdtab' = PipePair(fdtab, "pipeB")
            /\ wfd' = [wfd EXCEPT !.br = NextHandle(fdtab),
                                  !.bw = NextHandle(fdtab) + 1]
            /\ wpc' = [wpc EXCEPT ![3] = "load", ![4] = "load"]
            /\ mainPc' = "running"
            /\ UNCHANGED <<cmaster, cpeer, senderAlive>>
       ELSE /\ NewReturnsErr(fdtab, cmaster[1], cpeer[1])
            /\ UNCHANGED <<wfd, wpc>>
    /\ UNCHANGED <<serverVars, peerVars, via, termios_orig, restored,
                   termiosAtBind, do_flush, events, sent, waitPc, dataVars,
                   otherVars>>
(***************************************************************************)
(* splice_loop: worker 1 master -> pipe A, 2 pipe A -> peer,               *)
(* 3 peer -> pipe B, 4 pipe B -> master.                                   *)
(***************************************************************************)
Workers == 1..4

SrcKind(w) == IF w = 1 THEN "master" ELSE IF w = 2 THEN "pipeA"
              ELSE IF w = 3 THEN "peer" ELSE "pipeB"
DstKind(w) == IF w = 1 THEN "pipeA" ELSE IF w = 2 THEN "peer"
              ELSE IF w = 3 THEN "pipeB" ELSE "master"

\* fd_in and fd_out of worker w, as captured when it was spawned
FdIn(w) == IF w = 1 THEN wfd.m ELSE IF w = 2 THEN wfd.ar
           ELSE IF w = 3 THEN wfd.p ELSE wfd.br
FdOut(w) == IF w = 1 THEN wfd.aw ELSE IF w = 2 THEN wfd.p
            ELSE IF w = 3 THEN wfd.bw ELSE wfd.m

\* the pipe end the closure of worker w owns (m2p_tx, m2p_rx, p2m_tx, p2m_rx)
OwnEnd(w) == IF w = 1 THEN wfd.aw ELSE IF w = 2 THEN wfd.ar
             ELSE IF w = 3 THEN wfd.bw ELSE wfd.br

\* faulty variant: the first worker of the peer-to-master direction signals
HasSenderThird(w) == w = 3

\* lines 299-316: the worker that is given Some(event_tx)
HasSender(w) == w = 4

Stream(kind) ==
    IF kind = "master" THEN masterOut
    ELSE IF kind = "pipeA" THEN pipeA
    ELSE IF kind = "peer" THEN peerIn
    ELSE pipeB

\* what a blocking read of at most SPLICE_BUFFER_SIZE bytes finds
SrcStatus(w) ==
    LET k == SrcKind(w)
    IN  IF k = "master"
        THEN (IF masterOut # << >> THEN "data"
              ELSE IF ~SlaveOpen(fdtab, child) THEN "error" ELSE "block")
        ELSE IF k = "peer"
        THEN (IF ~peerUp THEN "error"
              ELSE IF peerIn # << >> THEN "data"
              ELSE IF peerNonblock THEN "again" ELSE "block")
        ELSE IF k = "pipeA"
        THEN (IF pipeA # << >> THEN "data"
              ELSE IF ~IsOpen(fdtab, wfd.aw) THEN "eof" ELSE "block")
        ELSE (IF pipeB # << >> THEN "data"
              ELSE IF ~IsOpen(fdtab, wfd.bw) THEN "eof" ELSE "block")

\* what a blocking write finds
DstStatus(w) ==
    LET k == DstKind(w)
    IN  IF k = "master"
        THEN (IF ~SlaveOpen(fdtab, child) THEN "error" ELSE "ok")
        ELSE IF k = "peer"
        THEN (IF ~peerUp THEN "error" ELSE "ok")
        ELSE IF k = "pipeA"
        THEN (IF ~IsOpen(fdtab, wfd.ar) THEN "error"
              ELSE IF Len(pipeA) < PipeCap THEN "ok" ELSE "block")
        ELSE (IF ~IsOpen(fdtab, wfd.br) THEN "error"
              ELSE IF Len(pipeB) < PipeCap THEN "ok" ELSE "block")

Room(w) ==
    IF DstKind(w) = "pipeA" THEN PipeCap - Len(pipeA)
    ELSE IF DstKind(w) = "pipeB" THEN PipeCap - Len(pipeB)
    ELSE SPLICE_BUFFER_SIZE

Result(kind, n) == [kind |-> kind, n |-> n]

\* splice(fd_in, fd_out, SPLICE_BUFFER_SIZE, Block), lines 85-94: the results
\* the call can return now; none while it blocks.  A call entered after
\* drop closed one of its descriptors fails (EBADF); one entered before
\* goes on with the open file.
SpliceResults(w) ==
    LET src == SrcStatus(w)
        dst == DstStatus(w)
        most == Min(Min(Len(Stream(SrcKind(w))), SPLICE_BUFFER_SIZE), Room(w))
        badfd == IF IsOpen(fdtab, FdIn(w)) /\ IsOpen(fdtab, FdOut(w))
                 THEN {} ELSE {Result("error", 0)}
        live ==
            IF src = "error" THEN {Result("error", 0)}
            ELSE IF src = "again" THEN {Result("again", 0)}
            ELSE IF src = "eof" THEN {Result("ok", 0)}
            ELSE IF src = "block" THEN {}
            ELSE IF dst = "error" THEN {Result("error", 0)}
            ELSE IF dst = "block" THEN {}
            ELSE {Result("ok", n) : n \in 1..most}
    IN  badfd \cup live
\* the event_rx end of the channel exists: TtyClient::new has not returned
\* an error and the TtyClient has not been dropped
ReceiverAlive == mainPc \in {"pipeA", "pipeB", "running"}

\* faulty variant: the loop does not look at the flag
LoadNextIgnoresFlag(flag) == "splice"

\* lines 178-180: where the worker goes after do_flush.load
LoadNext(flag) == IF flag THEN "done" ELSE "splice"

\* faulty variant: a successful transfer clears the flag
LoopStoreClears(res, flag) == res.kind = "error"

\* lines 183-195: do_flush after the match on the result
LoopStore(res, flag) == IF res.kind = "error" THEN TRUE ELSE flag

\* faulty variant: any failed transfer is retried
LoopNextRetries(res) == "load"

\* faulty variant: a transfer of zero bytes ends the loop like an error
LoopNextEndsAtEof(res) ==
    IF res.kind = "error" \/ (res.kind = "ok" /\ res.n = 0) THEN "done" ELSE "load"

\* lines 183-195: break 'select or the next iteration
LoopNext(res) == IF res.kind = "error" THEN "done" ELSE "load"

\* faulty variant: the pipe end the closure captured stays open after the
\* worker has left
LeavesKeepsEnd(w, pc) ==
    IF pc = "done"
    THEN /\ events' = IF HasSender(w) /\ ReceiverAlive THEN events + 1 ELSE events
         /\ sent' = IF HasSender(w) THEN [sent EXCEPT ![w] = @ + 1] ELSE sent
         /\ senderAlive' = IF HasSender(w) THEN FALSE ELSE senderAlive
         /\ fdtab' = fdtab
    ELSE UNCHANGED <<events, sent, senderAlive, fdtab>>

\* lines 197-203 and the end of the closure, which drops the pipe end it
\* captured: what a worker does once it has left the loop (pc is where it
\* goes: "done" when it left the loop)
Leaves(w, pc) ==
    IF pc = "done"
    THEN /\ events' = IF HasSender(w) /\ ReceiverAlive THEN events + 1 ELSE events
         /\ sent' = IF HasSender(w) THEN [sent EXCEPT ![w] = @ + 1] ELSE sent
         /\ senderAlive' = IF HasSender(w) THEN FALSE ELSE senderAlive
         /\ fdtab' = Close(fdtab, OwnEnd(w))
    ELSE UNCHANGED <<events, sent, senderAlive, fdtab>>

\* line 178, and lines 197-203 when the flag is set
WorkerLoad(w) ==
    /\ wpc[w] = "load"
    /\ wpc' = [wpc EXCEPT ![w] = LoadNext(do_flush)]
    /\ Leaves(w, LoadNext(do_flush))
    /\ UNCHANGED <<serverVars, peerVars, clientVars, do_flush, wfd, waitPc,
                   dataVars, otherVars>>

\* faulty variant: the bytes moved are put in front of what the destination
\* already holds
MovedInFront(w, n) ==
    LET from == Stream(SrcKind(w))
        head == SubSeq(from, 1, n)
        rest == SubSeq(from, n + 1, Len(from))
    IN  /\ masterOut' = IF w = 1 THEN rest ELSE masterOut
        /\ pipeA' = IF w = 1 THEN head \o pipeA ELSE IF w = 2 THEN rest ELSE pipeA
        /\ peerOut' = IF w = 2 THEN head \o peerOut ELSE peerOut
        /\ peerIn' = IF w = 3 THEN rest ELSE peerIn
        /\ pipeB' = IF w = 3 THEN head \o pipeB ELSE IF w = 4 THEN rest ELSE pipeB
        /\ slaveIn' = IF w = 4 THEN head \o slaveIn ELSE slaveIn

\* the first n bytes of the source go to the end of the destination
Moved(w, n) ==
    LET from == Stream(SrcKind(w))
        head == SubSeq(from, 1, n)
        rest == SubSeq(from, n + 1, Len(from))
    IN  /\ masterOut' = IF w = 1 THEN rest ELSE masterOut
        /\ pipeA' = IF w = 1 THEN pipeA \o head ELSE IF w = 2 THEN rest ELSE pipeA
        /\ peerOut' = IF w = 2 THEN peerOut \o head ELSE peerOut
        /\ peerIn' = IF w = 3 THEN rest ELSE peerIn
        /\ pipeB' = IF w = 3 THEN pipeB \o head ELSE IF w = 4 THEN rest ELSE pipeB
        /\ slaveIn' = IF w = 4 THEN slaveIn \o head ELSE slaveIn

\* lines 183-195: the transfer returns and the result is matched; lines
\* 197-203 when the match breaks out of the loop
WorkerSplice(w) ==
    /\ wpc[w] = "splice"
    /\ \E res \in SpliceResults(w) :
        /\ Moved(w, res.n)
        /\ do_flush' = LoopStore(res, do_flush)
        /\ wpc' = [wpc EXCEPT ![w] = LoopNext(res)]
        /\ Leaves(w, LoopNext(res))
    /\ finishedAfter' =
        IF finishedAfter # None /\ do_flush
        THEN Some([finishedAfter[1] EXCEPT ![w] = @ + 1])
        ELSE finishedAfter
    /\ UNCHANGED <<serverVars, peerVars, clientVars, wfd, waitPc, nOut, nIn,
                   descs, rawHist, got, pty>>

(***************************************************************************)
(* TtyClient::wait and Drop for TtyClient, both on the thread that owns    *)
(* the client.                                                             *)
(***************************************************************************)
\* wait() is entered
WaitCall ==
    /\ mainPc = "running"
    /\ waitPc = "idle"
    /\ waitPc' = "load"
    /\ UNCHANGED <<fdtab, serverVars, peerVars, clientVars, do_flush, chanVars,
                   wpc, wfd, dataVars, otherVars>>

\* faulty variant: wait returns without looking at the flag
WaitNextReturns(flag) == "returned"

\* line 329
WaitNext(flag) == IF flag THEN "returned" ELSE "recv"

WaitLoad ==
    /\ waitPc = "load"
    /\ waitPc' = WaitNext(do_flush)
    /\ UNCHANGED <<fdtab, serverVars, peerVars, clientVars, do_flush, chanVars,
                   wpc, wfd, dataVars, otherVars>>

\* line 330: recv returns a message, or an error once the Sender is gone
WaitRecv ==
    /\ waitPc = "recv"
    /\ events > 0 \/ ~senderAlive
    /\ events' = IF events > 0 THEN events - 1 ELSE events
    /\ waitPc' = "load"
    /\ UNCHANGED <<fdtab, serverVars, peerVars, clientVars, do_flush,
                   senderAlive, sent, wpc, wfd, dataVars, otherVars>>

\* faulty variant: drop resets the flag
DropStoreClears(flag) == FALSE

\* line 338
DropStore(flag) == TRUE

\* faulty variant: drop writes back the raw settings
RestoreValueRaw(orig, now) == now

\* line 339: the termios handed to tcsetattr
RestoreValue(orig, now) == orig

\* Drop for TtyClient, lines 337-340, then the fields master and peer go out
\* of scope; the tcsetattr of line 339 succeeds unless the terminal has
\* hung up, and its error is ignored
DropClient ==
    /\ CallerFree
    /\ mainPc = "running"
    /\ do_flush' = DropStore(do_flush)
    /\ peerTermios' = IF peerUp THEN RestoreValue(termios_orig[1], peerTermios)
                      ELSE peerTermios
    /\ restored' = IF peerUp THEN "ok" ELSE "failed"
    /\ fdtab' = FileDescDrop(FileDescDrop(fdtab, cmaster[1]), cpeer[1])
    /\ mainPc' = "dropped"
    /\ UNCHANGED <<serverVars, peerDesc, peerUp, peerNonblock, via, cmaster, cpeer,
                   termios_orig, termiosAtBind, chanVars, wpc, wfd,
                   waitPc, dataVars, otherVars>>

(***************************************************************************)
(* The environment: the child on the slave, the user on the peer.          *)
(***************************************************************************)
ChildWrite ==
    /\ child = "alive"
    /\ nOut < MaxOut
    /\ masterOut' = Append(masterOut, nOut + 1)
    /\ nOut' = nOut + 1
    /\ UNCHANGED <<fdtab, serverVars, peerVars, clientVars, do_flush, chanVars,
                   wpc, wfd, waitPc, pipeA, pipeB, peerOut, peerIn, slaveIn, nIn,
                   otherVars>>

ChildExit ==
    /\ child = "alive"
    /\ child' = "exited"
    /\ UNCHANGED <<fdtab, server, taken, nChildren, lastSpawn, childStdio,
                   peerVars, clientVars, do_flush, chanVars, wpc, wfd, waitPc,
                   dataVars, otherVars>>

UserType ==
    /\ peerUp
    /\ nIn < MaxIn
    /\ peerIn' = Append(peerIn, nIn + 1)
    /\ nIn' = nIn + 1
    /\ UNCHANGED <<fdtab, serverVars, peerVars, clientVars, do_flush, chanVars,
                   wpc, wfd, waitPc, pipeA, pipeB, masterOut, peerOut, slaveIn,
                   nOut, otherVars>>

PeerHangup ==
    /\ peerUp
    /\ peerUp' = FALSE
    /\ UNCHANGED <<fdtab, serverVars, peerDesc, peerTermios, peerNonblock,
                   clientVars, do_flush, chanVars, wpc, wfd, waitPc, dataVars,
                   otherVars>>

SetupOutcomes == {"ok", "tcgetattr", "tcsetattr"}

Next ==
    \/ \E ok \in BOOLEAN : Spawn(ok)
    \/ TakeSlave
    \/ DropTaken
    \/ \E o \in SetupOutcomes : NewClient(o)
    \/ \E o \in SetupOutcomes : NewDirect(o)
    \/ \E ok \in BOOLEAN : NewPipeA(ok)
    \/ \E ok \in BOOLEAN : NewPipeB(ok)
    \/ \E w \in Workers : WorkerLoad(w)
    \/ \E w \in Workers : WorkerSplice(w)
    \/ WaitCall
    \/ WaitLoad
    \/ WaitRecv
    \/ DropClient
    \/ ChildWrite
    \/ ChildExit
    \/ UserType
    \/ PeerHangup

Spec == Init /\ [][Next]_vars

\* the threads of the program run: a worker that can take its next step
\* takes it, and so does the thread inside wait(); a transfer that can
\* return returns.  Nothing is assumed of the child, the user or the caller.
Fairness ==
    /\ \A w \in Workers :
        WF_vars(WorkerLoad(w)) /\ WF_vars(WorkerSplice(w))
    /\ WF_vars(WaitLoad)
    /\ WF_vars(WaitRecv)

FairSpec == Spec /\ Fairness
(***************************************************************************)
(* SpecFd: FileDesc values are created, duplicated, disowned and released  *)
(* in any order.  descs[i] is the i-th FileDesc made, with its life state  *)
(* ("live", "released", "disowned") and, for a duplicate, the index of the *)
(* FileDesc it was duplicated from (0 otherwise).                          *)
(***************************************************************************)
InitFd ==
    /\ InitMain
    /\ via = "new_client"
    /\ peerDesc = Some(FileDescNew(0, FALSE))
    /\ peerTermios = Cooked
    /\ peerNonblock = FALSE
    /\ descs = << >>
    /\ rawHist = << >>
    /\ pty = None

mainVars == <<serverVars, peerVars, clientVars, do_flush, chanVars, wpc, wfd,
              waitPc, dataVars>>

Desc(d, state, from) ==
    [fd |-> d.fd, close_on_drop |-> d.close_on_drop, state |-> state, from |-> from]

\* FileDesc::new on a descriptor the kernel has just returned (lib.rs lines
\* 162-163 with close_on_drop, examples/spawn.rs line 27 without)
FdNew(c) ==
    /\ Len(descs) < MaxDescs
    /\ fdtab' = Alloc(fdtab, "file")
    /\ descs' = Append(descs, Desc(FileDescNew(NextHandle(fdtab), c), "live", 0))
    /\ UNCHANGED <<mainVars, rawHist, got, pty, finishedAfter>>

\* FileDesc::new(other.as_raw_fd(), false), as TtyServer::new_client does
FdBorrow(i) ==
    /\ Len(descs) < MaxDescs
    /\ descs[i].state = "live"
    /\ descs' = Append(descs, Desc(FileDescNew(as_raw_fd(descs[i]), FALSE), "live", 0))
    /\ UNCHANGED <<fdtab, mainVars, rawHist, got, pty, finishedAfter>>

\* FileDesc::dup; dup(2) on a closed handle fails and nothing is made
FdDup(i) ==
    /\ Len(descs) < MaxDescs
    /\ descs[i].state = "live"
    /\ IsOpen(fdtab, descs[i].fd)
    /\ LET r == FileDescDup(fdtab, descs[i])
       IN  /\ fdtab' = r[1]
           /\ descs' = Append(descs, Desc(r[2], "live", i))
    /\ UNCHANGED <<mainVars, rawHist, got, pty, finishedAfter>>

\* Into<RawFd>::into: the flag is cleared, then self goes out of scope
FdInto(i) ==
    /\ descs[i].state = "live"
    /\ fdtab' = FileDescDrop(fdtab, FileDescInto(descs[i]))
    /\ descs' = [descs EXCEPT ![i].state = "disowned"]
    /\ UNCHANGED <<mainVars, rawHist, got, pty, finishedAfter>>

\* the FileDesc goes out of scope
FdRelease(i) ==
    /\ descs[i].state = "live"
    /\ fdtab' = FileDescDrop(fdtab, descs[i])
    /\ descs' = [descs EXCEPT ![i].state = "released"]
    /\ UNCHANGED <<mainVars, rawHist, got, pty, finishedAfter>>

NextFd ==
    \/ \E c \in BOOLEAN : FdNew(c)
    \/ \E i \in DOMAIN descs : FdBorrow(i)
    \/ \E i \in DOMAIN descs : FdDup(i)
    \/ \E i \in DOMAIN descs : FdInto(i)
    \/ \E i \in DOMAIN descs : FdRelease(i)

SpecFd == InitFd /\ [][NextFd]_vars

(***************************************************************************)
(* SpecRaw: the raw-mode recipe applied again and again to a termios.      *)
(* rawHist[1] is the input, rawHist[k+1] the result of k applications.     *)
(***************************************************************************)
AllTermios ==
    {Termios(l, i, vmin, vtime) :
        l \in SUBSET LocalFlags, i \in SUBSET InputFlags,
        vmin \in 0..MaxCc, vtime \in 0..MaxCc}

InitRaw ==
    /\ InitMain
    /\ via = "new_client"
    /\ peerDesc = Some(FileDescNew(0, FALSE))
    /\ peerTermios = Cooked
    /\ peerNonblock = FALSE
    /\ descs = << >>
    /\ \E t \in AllTermios : rawHist = <<t>>
    /\ pty = None

\* lines 276-286 on a peer whose termios is the last of rawHist
ApplyRaw ==
    /\ Len(rawHist) <= MaxApply
    /\ rawHist' = Append(rawHist, MakeRaw(rawHist[Len(rawHist)]))
    /\ UNCHANGED <<fdtab, mainVars, descs, got, pty, finishedAfter>>

NextRaw == ApplyRaw

SpecRaw == InitRaw /\ [][NextRaw]_vars

(***************************************************************************)
(* SpecServer: the calls a caller makes on one TtyServer, get_path and     *)
(* get_master included, with the clients it builds through new_client,     *)
(* their workers and their teardown; no data flows.                        *)
(***************************************************************************)
InitSrv ==
    /\ InitMain
    /\ \E in \in {c \in Callers : c.via = "new_client"} :
        /\ via = in.via
        /\ peerDesc = Some(FileDescNew(0, in.close_on_drop))
        /\ peerTermios = in.termios
        /\ peerNonblock = in.nonblock
    /\ descs = << >>
    /\ rawHist = << >>
    /\ pty = None

Got(what, value) == [what |-> what, value |-> value]

\* TtyServer::get_path
GetPath ==
    /\ CallerFree
    /\ got' = Some(Got("path", server.path))
    /\ UNCHANGED <<fdtab, mainVars, descs, rawHist, pty, finishedAfter>>

\* TtyServer::get_master
GetMaster ==
    /\ CallerFree
    /\ got' = Some(Got("master", server.master))
    /\ UNCHANGED <<fdtab, mainVars, descs, rawHist, pty, finishedAfter>>

NextSrv ==
    \/ \E ok \in BOOLEAN : Spawn(ok)
    \/ TakeSlave
    \/ DropTaken
    \/ GetPath
    \/ GetMaster
    \/ \E o \in SetupOutcomes : NewClient(o)
    \/ \E ok \in BOOLEAN : NewPipeA(ok)
    \/ \E ok \in BOOLEAN : NewPipeB(ok)
    \/ \E w \in Workers : WorkerLoad(w)
    \/ \E w \in Workers : WorkerSplice(w)
    \/ DropClient
    \/ ChildExit
    \/ PeerHangup

SpecServer == InitSrv /\ [][NextSrv]_vars

(***************************************************************************)
(* SpecPty: openpty of ffi.rs, one action per call it makes.  master and   *)
(* slave are the local File values (Option of a handle); a File closes its *)
(* handle when it goes out of scope.  The caller keeps or drops the Pty it *)
(* got and calls again.                                                    *)
(***************************************************************************)
PtyIdle ==
    [pc |-> "idle", termp |-> FALSE, winp |-> FALSE, master |-> None,
     slave |-> None, opened |-> {}, value |-> None, failedAt |-> "none",
     calls |-> 0]

InitPty ==
    /\ InitMain
    /\ via = "new_client"
    /\ peerDesc = Some(FileDescNew(0, FALSE))
    /\ peerTermios = Cooked
    /\ peerNonblock = FALSE
    /\ descs = << >>
    /\ rawHist = << >>
    /\ pty = Some(PtyIdle)

\* faulty variant: the handle is kept as a raw descriptor, which nothing closes
FileDropLeaks(tab, f) == tab

\* a std::fs::File (Option) goes out of scope
FileDrop(tab, f) == IF f = None THEN tab ELSE Close(tab, f[1])

\* openpty(termp, winp) is entered; termp and winp tell whether the
\* arguments are Some
PtyCall(termp, winp) ==
    /\ pty[1].pc \in {"idle", "ok", "err"}
    /\ pty[1].calls < MaxPtyCalls
    /\ pty' = Some([PtyIdle EXCEPT !.pc = "getpt", !.termp = termp,
                                   !.winp = winp, !.calls = pty[1].calls + 1])
    /\ UNCHANGED <<fdtab, mainVars, descs, rawHist, got, finishedAfter>>

\* try!: the error is returned and the locals go out of scope, the slave
\* before the master
PtyTry(step) ==
    /\ fdtab' = FileDrop(FileDrop(fdtab, pty[1].slave), pty[1].master)
    /\ pty' = Some([pty[1] EXCEPT !.pc = "err", !.failedAt = step,
                                  !.master = None, !.slave = None])

\* line 124: getpt opens /dev/ptmx
PtyGetpt(ok) ==
    /\ pty[1].pc = "getpt"
    /\ IF ok
       THEN /\ fdtab' = Alloc(fdtab, "ptmx")
            /\ pty' = Some([pty[1] EXCEPT !.pc = "grantpt",
                                          !.master = Some(NextHandle(fdtab)),
                                          !.opened = @ \cup {NextHandle(fdtab)}])
       ELSE PtyTry("getpt")
    /\ UNCHANGED <<mainVars, descs, rawHist, got, finishedAfter>>

\* lines 125-127: grantpt, unlockpt, ptsname on the master
PtyOnMaster(step, next, ok) ==
    /\ pty[1].pc = step
    /\ IF ok
       THEN /\ pty' = Some([pty[1] EXCEPT !.pc = next])
            /\ fdtab' = fdtab
       ELSE PtyTry(step)
    /\ UNCHANGED <<mainVars, descs, rawHist, got, finishedAfter>>

\* line 128: open_noctty(&name)
PtyOpenSlave(ok) ==
    /\ pty[1].pc = "open_slave"
    /\ IF ok
       THEN /\ fdtab' = Alloc(fdtab, "pts")
            /\ pty' = Some([pty[1] EXCEPT !.pc = "tcsetattr",
                                          !.slave = Some(NextHandle(fdtab)),
                                          !.opened = @ \cup {NextHandle(fdtab)}])
       ELSE PtyTry("open_slave")
    /\ UNCHANGED <<mainVars, descs, rawHist, got, finishedAfter>>

\* lines 130-137: tcsetattr when termp is Some, set_winsize when winp is
\* Some; with None the step does nothing and cannot fail
PtyOnSlave(step, next, given, ok) ==
    /\ pty[1].pc = step
    /\ IF given /\ ~ok
       THEN PtyTry(step)
       ELSE /\ pty' = Some([pty[1] EXCEPT !.pc = next])
            /\ fdtab' = fdtab
    /\ UNCHANGED <<mainVars, descs, rawHist, got, finishedAfter>>

\* lines 140-144: the files move into the Pty that is returned
PtyReturnOk ==
    /\ pty[1].pc = "return"
    /\ pty' = Some([pty[1] EXCEPT !.pc = "ok", !.master = None, !.slave = None,
                                  !.value = Some([master |-> pty[1].master,
                                                  slave |-> pty[1].slave,
                                                  path |-> PtsPath])])
    /\ UNCHANGED <<fdtab, mainVars, descs, rawHist, got, finishedAfter>>

\* the caller lets go of the Pty it got: both files go out of scope
PtyValueDrop ==
    /\ pty[1].pc = "ok"
    /\ pty[1].value # None
    /\ fdtab' = FileDrop(FileDrop(fdtab, pty[1].value[1].master),
                         pty[1].value[1].slave)
    /\ pty' = Some([pty[1] EXCEPT !.value = None])
    /\ UNCHANGED <<mainVars, descs, rawHist, got, finishedAfter>>

NextPty ==
    \/ \E termp, winp \in BOOLEAN : PtyCall(termp, winp)
    \/ \E ok \in BOOLEAN : PtyGetpt(ok)
    \/ \E ok \in BOOLEAN : PtyOnMaster("grantpt", "unlockpt", ok)
    \/ \E ok \in BOOLEAN : PtyOnMaster("unlockpt", "ptsname", ok)
    \/ \E ok \in BOOLEAN : PtyOnMaster("ptsname", "open_slave", ok)
    \/ \E ok \in BOOLEAN : PtyOpenSlave(ok)
    \/ \E ok \in BOOLEAN : PtyOnSlave("tcsetattr", "set_winsize", pty[1].termp, ok)
    \/ \E ok \in BOOLEAN : PtyOnSlave("set_winsize", "return", pty[1].winp, ok)
    \/ PtyReturnOk
    \/ PtyValueDrop

SpecPty == InitPty /\ [][NextPty]_vars

(***************************************************************************)
(* SpecRelay: the client of examples/spawn.rs is running (new_client and   *)
(* spawn have succeeded, the four workers are at the top of their loop);   *)
(* the child writes and the user types up to MaxRelay bytes each, the      *)
(* child may exit, the terminal may hang up, the caller may drop the       *)
(* client.                                                                 *)
(***************************************************************************)
\* the state after Spawn(TRUE), NewClient("ok"), NewPipeA(TRUE),
\* NewPipeB(TRUE) for the caller of examples/spawn.rs, on a terminal opened
\* non-blocking (nb) or not
RunningStart(nb) ==
    /\ fdtab = PipePair(PipePair(Close(InitFdtab, 2), "pipeA"), "pipeB")
    /\ server = [InitServer EXCEPT !.slave = None]
    /\ taken = None
    /\ child = "alive"
    /\ nChildren = 1 /\ lastSpawn = "ok"
    /\ childStdio = Some(SpawnStdio(InitServer.slave[1]))
    /\ peerDesc = None
    /\ peerTermios = MakeRaw(Cooked)
    /\ peerUp = TRUE
    /\ peerNonblock = nb
    /\ mainPc = "running"
    /\ via = "new_client"
    /\ cmaster = Some(FileDescNew(1, FALSE)) /\ cpeer = Some(FileDescNew(0, FALSE))
    /\ termios_orig = Some(Cooked)
    /\ do_flush = FALSE
    /\ events = 0 /\ senderAlive = TRUE
    /\ sent = [w \in 1..4 |-> 0]
    /\ wpc = [w \in 1..4 |-> "load"]
    /\ pipeA = << >> /\ pipeB = << >>
    /\ wfd = [m |-> 1, p |-> 0, ar |-> 3, aw |-> 4, br |-> 5, bw |-> 6]
    /\ waitPc = "idle"
    /\ masterOut = << >> /\ peerOut = << >> /\ peerIn = << >> /\ slaveIn = << >>
    /\ nOut = 0 /\ nIn = 0
    /\ restored = "none" /\ termiosAtBind = Some(Cooked)
    /\ got = None

\* the state of Spec after these four steps from the first of Callers
RelayStart == RunningStart(FALSE)

InitRelay ==
    /\ RelayStart
    /\ descs = << >>
    /\ rawHist = << >>
    /\ pty = None
    /\ finishedAfter = None

\* the child writes one more byte to the slave
RelayChildWrite ==
    /\ child = "alive"
    /\ nOut < MaxRelay
    /\ masterOut' = Append(masterOut, nOut + 1)
    /\ nOut' = nOut + 1
    /\ UNCHANGED <<fdtab, serverVars, peerVars, clientVars, do_flush, chanVars,
                   wpc, wfd, waitPc, pipeA, pipeB, peerOut, peerIn, slaveIn, nIn,
                   otherVars>>

\* the user types one more byte on the peer
RelayUserType ==
    /\ peerUp
    /\ nIn < MaxRelay
    /\ peerIn' = Append(peerIn, nIn + 1)
    /\ nIn' = nIn + 1
    /\ UNCHANGED <<fdtab, serverVars, peerVars, clientVars, do_flush, chanVars,
                   wpc, wfd, waitPc, pipeA, pipeB, masterOut, peerOut, slaveIn,
                   nOut, otherVars>>

NextRelay ==
    \/ \E w \in Workers : WorkerLoad(w)
    \/ \E w \in Workers : WorkerSplice(w)
    \/ RelayChildWrite
    \/ RelayUserType
    \/ ChildExit
    \/ PeerHangup
    \/ DropClient

SpecRelay == InitRelay /\ [][NextRelay]_vars

(***************************************************************************)
(* SpecCancel: the running client of SpecRelay, on a blocking or a         *)
(* non-blocking terminal; the flag gets set by a failing worker or by the  *)
(* teardown, and finishedAfter counts what each worker still does.         *)
(***************************************************************************)
InitCancel ==
    /\ \E nb \in BOOLEAN : RunningStart(nb)
    /\ descs = << >>
    /\ rawHist = << >>
    /\ pty = None
    /\ finishedAfter = Some([w \in Workers |-> 0])

NextCancel ==
    \/ \E w \in Workers : WorkerLoad(w)
    \/ \E w \in Workers : WorkerSplice(w)
    \/ ChildWrite
    \/ UserType
    \/ ChildExit
    \/ PeerHangup
    \/ DropClient

SpecCancel == InitCancel /\ [][NextCancel]_vars

(***************************************************************************)
(* SpecHops: the running client of SpecRelay, with the data of Spec and a  *)
(* caller that may enter wait().  The two                                  *)
(* threads that read a relay pipe and the thread inside wait() run;        *)
(* nothing is assumed of the two threads that write a relay pipe.          *)
(***************************************************************************)
InitHops ==
    /\ RelayStart
    /\ descs = << >>
    /\ rawHist = << >>
    /\ pty = None
    /\ finishedAfter = None

NextHops ==
    \/ \E w \in Workers : WorkerLoad(w)
    \/ \E w \in Workers : WorkerSplice(w)
    \/ WaitCall
    \/ WaitLoad
    \/ WaitRecv
    \/ ChildWrite
    \/ UserType
    \/ ChildExit
    \/ PeerHangup
    \/ DropClient

\* one step of the thread of worker w
WorkerStep(w) == WorkerLoad(w) \/ WorkerSplice(w)

\* a thread that reads a relay pipe takes its next step when it can (a
\* transfer that can return returns), and so does the thread inside wait()
HopFairness ==
    /\ WF_vars(WorkerStep(2))
    /\ WF_vars(WorkerStep(4))
    /\ WF_vars(WaitLoad \/ WaitRecv)

SpecHops == InitHops /\ [][NextHops]_vars /\ HopFairness

(***************************************************************************)
(* Claims.                                                                 *)
(***************************************************************************)
\* C1: once a worker has stored true in the flag after a failed transfer, a
\* thread blocked in wait() (inside recv) eventually returns from wait().
\* While a thread is inside wait() the client cannot be dropped, so a set
\* flag was set by a worker.
C1_WaitReturns == (waitPc = "recv" /\ do_flush) ~> (waitPc = "returned")

\* C2: once the child has exited and no descriptor refers to the slave any
\* more, all four workers of the bound client eventually leave their loop.
C2_AllWorkersLeave ==
    (mainPc = "running" /\ child = "exited" /\ ~SlaveOpen(fdtab, child))
        ~> (\A w \in Workers : wpc[w] = "done")

\* C3: the shutdown flag starts false and, in every step of the workers, of
\* wait() and of teardown, a flag that is true stays true.
C3_FlagMonotonic == (do_flush = FALSE) /\ [][do_flush => do_flush']_vars

\* C3 witness: teardown stored true in a flag that was already true (wait()
\* had returned, which it does only on a set flag).
C3_Witness == mainPc = "dropped" /\ waitPc = "returned" /\ do_flush

\* C4: at most one child is ever started; after a successful spawn or a
\* take_slave the server holds no slave; and once the server holds no slave,
\* no step changes the server or starts a child, and the only result a spawn
\* call reports is the BrokenPipe error.
C4_SlaveConsumedOnce ==
    /\ [](/\ nChildren <= 1
          /\ (lastSpawn = "ok" => server.slave = None)
          /\ (taken # None => server.slave = None))
    /\ [][server.slave = None =>
            /\ server' = server
            /\ nChildren' = nChildren
            /\ lastSpawn' \in {lastSpawn, "BrokenPipe"}]_vars

\* C4 witness: a spawn call after a successful spawn returned the error.
C4_Witness == nChildren = 1 /\ lastSpawn = "BrokenPipe" /\ server.slave = None

PipeObjs == {"pipeA_r", "pipeA_w", "pipeB_r", "pipeB_w"}

\* C5: when TtyClient::new has returned an error, no worker it started is
\* still running, no relay pipe end is open and the peer has the termios it
\* had when the call was entered.
C5_FailedNewReleasesAll ==
    mainPc = "failed" =>
        /\ \A w \in Workers : wpc[w] \in {"unborn", "done"}
        /\ \A h \in DOMAIN fdtab : fdtab[h].obj \in PipeObjs => ~fdtab[h].open
        /\ peerTermios = termiosAtBind[1]

\* C6: a spawn call that fails at process creation while the slave is held
\* leaves the server and its descriptors as they were.
C6_FailedSpawnRolledBack ==
    [][(server.slave # None /\ lastSpawn # "spawn_error"
            /\ lastSpawn' = "spawn_error")
        => (server' = server /\ fdtab' = fdtab)]_vars

\* C7 as stated: after teardown neither the master's nor the peer's handle
\* is open, however the client was built.
C7_Original ==
    mainPc = "dropped" => ~IsOpen(fdtab, wfd.m) /\ ~IsOpen(fdtab, wfd.p)

\* C7 amended: after teardown the master's (the peer's) handle is closed,
\* once, exactly when the client's FileDesc for it had close_on_drop set,
\* and is open and untouched otherwise; a client built through new_client
\* borrows the server's master and leaves it open, a client built with
\* TtyClient::new on a duplicate of the master closes that duplicate.
C7_TeardownClosesOwned ==
    mainPc = "dropped" =>
        /\ \A d \in {cmaster[1], cpeer[1]} :
            /\ IsOpen(fdtab, d.fd) <=> ~d.close_on_drop
            /\ fdtab[d.fd].closes = IF d.close_on_drop THEN 1 ELSE 0
        /\ via = "new_client" => IsOpen(fdtab, wfd.m)
        /\ via = "direct" => ~IsOpen(fdtab, wfd.m)

\* C7 witness: a client built through new_client on an owning peer was torn
\* down: the peer is closed and the master is still open.
C7_Witness ==
    /\ mainPc = "dropped"
    /\ via = "new_client"
    /\ cpeer[1].close_on_drop
    /\ ~IsOpen(fdtab, wfd.p)
    /\ IsOpen(fdtab, wfd.m)

\* C8: in every sequence of new, dup, into and release, each handle is
\* closed as many times as an owning (close_on_drop) FileDesc on it has been
\* released, which is at most once: a disowned or borrowed FileDesc closes
\* nothing, and a duplicate has a handle of its own, so releasing it does
\* not close the original's.
C8_ClosedExactlyOnce ==
    /\ \A h \in DOMAIN fdtab :
        /\ fdtab[h].closes <= 1
        /\ fdtab[h].closes =
            Cardinality({i \in DOMAIN descs :
                /\ descs[i].fd = h
                /\ descs[i].state = "released"
                /\ descs[i].close_on_drop})
    /\ \A i \in DOMAIN descs :
        descs[i].from # 0 => descs[i].fd # descs[descs[i].from].fd

\* C8 witness: an owning duplicate was released and closed while its
\* original is live and open, and a disowned owning FileDesc left its
\* handle open.
C8_Witness ==
    /\ \E j \in DOMAIN descs :
        /\ descs[j].from # 0
        /\ descs[j].state = "released"
        /\ descs[j].close_on_drop
        /\ fdtab[descs[j].fd].closes = 1
        /\ descs[descs[j].from].state = "live"
        /\ IsOpen(fdtab, descs[descs[j].from].fd)
    /\ \E k \in DOMAIN descs :
        /\ descs[k].state = "disowned"
        /\ descs[k].close_on_drop
        /\ IsOpen(fdtab, descs[k].fd)

\* C9: after a teardown whose tcsetattr succeeded, the peer has exactly the
\* termios it had when the client was bound.
C9_RestoreExact ==
    (mainPc = "dropped" /\ restored = "ok") => peerTermios = termiosAtBind[1]

\* C9 witness: such a teardown on a peer whose termios raw mode had changed.
C9_Witness ==
    /\ mainPc = "dropped"
    /\ restored = "ok"
    /\ MakeRaw(termiosAtBind[1]) # termiosAtBind[1]

\* C10: applying the raw-mode recipe to its own result changes nothing:
\* every application after the first returns the termios it was given.
C10_RawIdempotent ==
    \A k \in 2..Len(rawHist) - 1 : rawHist[k + 1] = rawHist[k]

\* C10 witness: the recipe was applied twice to a termios that the first
\* application changed.
C10_Witness == Len(rawHist) >= 3 /\ rawHist[2] # rawHist[1]

\* the bytes 1..n in the order they were produced
Produced(n) == [i \in 1..n |-> i]

IsPrefix(s, t) == Len(s) <= Len(t) /\ SubSeq(t, 1, Len(s)) = s

\* C11: in each direction, at every moment, the bytes delivered to the
\* destination (the peer, the slave) are a prefix of the bytes read so far
\* from the source (the master, the peer), which are the bytes produced
\* less those still waiting in the source: nothing is reordered, duplicated
\* or altered, however the transfers of the two hops are cut and interleaved.
C11_RelayKeepsOrder ==
    /\ IsPrefix(peerOut, SubSeq(Produced(nOut), 1, nOut - Len(masterOut)))
    /\ IsPrefix(slaveIn, SubSeq(Produced(nIn), 1, nIn - Len(peerIn)))

\* C11 witness: in both directions two bytes have reached the destination
\* while the third, read in a later transfer, is still in the relay pipe.
C11_Witness ==
    /\ peerOut = <<1, 2>> /\ pipeA = <<3>>
    /\ slaveIn = <<1, 2>> /\ pipeB = <<3>>

\* C12: whatever the caller does with the server and with the clients it
\* builds through new_client, the server's path and master are the ones it
\* was created with, the master's handle is open and was never closed, and
\* get_path and get_master return them.
C12_ServerPathMasterStable ==
    /\ server.path = InitServer.path
    /\ server.master = InitServer.master
    /\ IsOpen(fdtab, as_raw_fd(server.master))
    /\ fdtab[as_raw_fd(server.master)].obj = "master"
    /\ fdtab[as_raw_fd(server.master)].closes = 0
    /\ \A g \in {got[i] : i \in DOMAIN got} :
        g.value = IF g.what = "path" THEN InitServer.path ELSE InitServer.master

\* C12 witness: after a spawn, a second, refused spawn and the teardown of a
\* client built through new_client, get_master was called.
C12_Witness ==
    /\ mainPc = "dropped"
    /\ lastSpawn = "BrokenPipe"
    /\ got = Some(Got("master", server.master))

\* the handles a spawn gave the command as its three standard streams
StdioHandles(io) == {io.stdin.fd, io.stdout.fd, io.stderr.fd}

\* C13: after a successful spawn the child's standard input, output and
\* error are three distinct descriptors, each a duplicate of the slave and
\* none the server's own, and the server holds no slave any more, its own
\* handle being closed.
C13_ThreeDuplicates ==
    childStdio # None =>
        /\ Cardinality(StdioHandles(childStdio[1])) = 3
        /\ \A h \in StdioHandles(childStdio[1]) :
            /\ h \in DOMAIN fdtab
            /\ fdtab[h].obj = "slave"
            /\ h # as_raw_fd(InitServer.slave[1])
        /\ server.slave = None
        /\ ~IsOpen(fdtab, as_raw_fd(InitServer.slave[1]))

\* C14: when openpty has returned an error, at whichever step, no Pty was
\* produced, the call holds no file any more, and every descriptor the call
\* had opened is closed, once.
C14_FailedOpenptyClosesAll ==
    pty[1].pc = "err" =>
        /\ pty[1].value = None
        /\ pty[1].master = None /\ pty[1].slave = None
        /\ \A h \in pty[1].opened : ~IsOpen(fdtab, h) /\ fdtab[h].closes = 1

\* C14 witness: the second call failed at its last step, the window size,
\* with the master and the slave opened.
C14_Witness ==
    /\ pty[1].pc = "err"
    /\ pty[1].calls = 2
    /\ pty[1].failedAt = "set_winsize"
    /\ Cardinality(pty[1].opened) = 2

\* the client descriptor worker w transfers on: the master for workers 1
\* and 4, the peer for workers 2 and 3
ClientHandle(w) == IF w \in {1, 4} THEN wfd.m ELSE wfd.p

\* C15: once teardown has run, no worker is in a transfer (decided on, or
\* in flight) on a master or peer handle that teardown has closed.
C15_NoTransferOnClosedHandle ==
    mainPc = "dropped" =>
        \A w \in Workers : wpc[w] = "splice" => IsOpen(fdtab, ClientHandle(w))

\* the transfer of worker w can only fail with the transient error
OnlyTransient(w) == SpliceResults(w) = {Result("again", 0)}

\* the transfer of worker w can only fail with another error
OnlyFatal(w) ==
    /\ SpliceResults(w) # {}
    /\ \A r \in SpliceResults(w) : r.kind = "error"

\* C16: when a worker's transfer returns and could only fail as 'resource
\* unavailable', the flag is left as it was and the worker is back at the
\* top of its loop; when it could only fail with another error, the flag is
\* true afterwards and the worker has left its loop; and a worker that has
\* left its loop never transfers again.
C16_TransientRetriedFatalStops ==
    [][\A w \in Workers :
        /\ (wpc[w] = "splice" /\ wpc'[w] # "splice") =>
            /\ OnlyTransient(w) => (do_flush' = do_flush /\ wpc'[w] = "load")
            /\ OnlyFatal(w) => (do_flush' /\ wpc'[w] = "done")
        /\ wpc[w] = "done" => wpc'[w] = "done"]_vars

\* C16 witness: with the client still bound, worker 1 has left its loop on a
\* fatal error, which set the flag, and worker 3 is in a transfer on the
\* non-blocking peer that can only fail as 'resource unavailable'.
C16_Witness ==
    /\ mainPc = "running"
    /\ do_flush
    /\ wpc[1] = "done"
    /\ wpc[3] = "splice"
    /\ OnlyTransient(3)

\* C17: the completion signal is sent by worker 4 (pipe B to master) only,
\* once, on leaving its loop: it has sent once when it has left and not at
\* all before; workers 1, 2 and 3 never send.
C17_SignalOnceByLastLeg ==
    /\ \A w \in Workers \ {4} : sent[w] = 0
    /\ sent[4] = IF wpc[4] = "done" THEN 1 ELSE 0

\* C17 witness: all four workers have left their loops; one signal was sent.
C17_Witness ==
    /\ \A w \in Workers : wpc[w] = "done"
    /\ sent[4] = 1

\* C18: each worker finishes at most one transfer that returns when the
\* flag is already true (the transfer that was in flight, or decided on,
\* when the flag was set), and a worker that reads the flag as true does not
\* start a transfer: it leaves its loop.
C18_OneTransferAfterFlag ==
    /\ [](\A w \in Workers : finishedAfter[1][w] <= 1)
    /\ [][\A w \in Workers :
            (wpc[w] = "load" /\ do_flush /\ wpc'[w] # "load") => wpc'[w] = "done"]_vars

\* C18 witness: all workers have left; worker 2 finished one transfer after
\* the flag was set, worker 1 none.
C18_Witness ==
    /\ \A w \in Workers : wpc[w] = "done"
    /\ finishedAfter[1][2] = 1
    /\ finishedAfter[1][1] = 0

\* C19: wait() returns only on reading the flag as true, so the flag is true
\* whenever wait() has returned; and whenever a worker sends the completion
\* signal the flag is true.
C19_WaitReturnsOnFlag ==
    /\ [](waitPc = "returned" => do_flush)
    /\ [][(waitPc # "returned" /\ waitPc' = "returned") => do_flush]_vars
    /\ [][sent' # sent => do_flush']_vars

\* C19 witness: wait() has returned after the completion signal was sent and
\* received, the client not yet torn down.
C19_Witness ==
    /\ waitPc = "returned"
    /\ sent[4] = 1
    /\ events = 0
    /\ mainPc = "running"

\* the transfer of worker w can only succeed (with data, or with zero bytes
\* at the end of file of its source)
OnlySuccess(w) ==
    /\ SpliceResults(w) # {}
    /\ \A r \in SpliceResults(w) : r.kind = "ok"

\* C20: a step turns the flag from false to true only if it is the teardown
\* of the client or the return of a worker's transfer that could fail with
\* a non-transient error, after which that worker has left its loop; and
\* when a worker's transfer returns and could only succeed, zero bytes at
\* end of file included, the flag is left as it was and the worker is back
\* at the top of its loop.
C20_FlagSetOnlyByFailureOrDrop ==
    /\ [][(~do_flush /\ do_flush') =>
            \/ mainPc = "running" /\ mainPc' = "dropped"
            \/ \E w \in Workers :
                /\ wpc[w] = "splice" /\ wpc'[w] = "done"
                /\ \E r \in SpliceResults(w) : r.kind = "error"]_vars
    /\ [][\A w \in Workers :
            (wpc[w] = "splice" /\ wpc'[w] # "splice" /\ OnlySuccess(w)) =>
                (do_flush' = do_flush /\ wpc'[w] = "load")]_vars

\* C20 witness: with the client bound and the terminal up, the flag is true
\* (a worker failed: the master lost its slave) and worker 2, with no byte
\* ever written by the child, has finished a transfer since, which moved
\* zero bytes from the relay pipe worker 1 closed, and is at the top of its
\* loop.
C20_Witness ==
    /\ mainPc = "running" /\ peerUp
    /\ do_flush
    /\ nOut = 0
    /\ wpc[1] = "done"
    /\ finishedAfter[1][2] = 1
    /\ wpc[2] = "load"

\* the worker that reads the relay pipe worker w writes (w is 1 or 3)
SecondHop(w) == w + 1

\* the workers that write a relay pipe
FirstHops == {1, 3}

\* C21: when a worker that writes a relay pipe has left its loop, the write
\* end of that pipe is closed, and the worker that reads the pipe eventually
\* leaves its loop too (the threads run and a transfer that can return
\* returns); for the pipe from the peer to the master the reader then has
\* sent the completion signal once, and a thread inside wait() eventually
\* returns from it (a thread inside wait() leaves it only by returning, and
\* a worker that has left stays so, so that a thread entering wait() later
\* is covered too).
C21_SecondHopFollows ==
    /\ [](\A w \in FirstHops :
            wpc[w] = "done" => ~IsOpen(fdtab, OwnEnd(w)))
    /\ (wpc[1] = "done") ~> (wpc[SecondHop(1)] = "done")
    /\ (wpc[3] = "done") ~>
            /\ wpc[SecondHop(3)] = "done"
            /\ sent[SecondHop(3)] = 1
            /\ waitPc \notin {"load", "recv"}

\* C21 witness: on a terminal that is still up, with the client bound and
\* the slave closed, both workers that write a relay pipe have left, both
\* pipes are empty with their write end closed, both readers have left, the
\* signal was sent and received, and the caller has returned from wait().
C21_Witness ==
    /\ mainPc = "running" /\ peerUp
    /\ \A w \in Workers : wpc[w] = "done"
    /\ ~IsOpen(fdtab, wfd.aw) /\ ~IsOpen(fdtab, wfd.bw)
    /\ pipeA = << >> /\ pipeB = << >>
    /\ sent[4] = 1 /\ events = 0
    /\ waitPc = "returned"
====
